---- MODULE Spec2Model ----
(***************************************************************************)
(* Repo Health Checker (Scripts/repo_health_checker/repo_health_checker.py) *)
(*                                                                         *)
(* The state is the inspected filesystem, the module global DEFAULT_FILES, *)
(* the heap of the dict and list objects a report is made of, the report   *)
(* most recently returned, and what the latest run of main printed and     *)
(* exited with.  Paths are sequences of name components; a file's content  *)
(* is its sequence of bytes, over one letter, two whitespace characters    *)
(* and one byte that is not valid UTF-8.                                   *)
(***************************************************************************)
EXTENDS Integers, Sequences, FiniteSets, TLC

VARIABLES DEFAULT_FILES, fs, heap, findings, stdout, exit_code, call, edits

vars == <<DEFAULT_FILES, fs, heap, findings, stdout, exit_code, call, edits>>

(* ------------------------------ bounds -------------------------------- *)

\* Filesystem modifications in one behaviour of Spec.
MaxEdits == 1

\* Largest number of letters in a file drawn by InitText.
MaxChars == 31

(* --------------------------- Python values ---------------------------- *)

\* Python's None where a path is expected: no path is the empty sequence.
None == <<>>

\* The exit status of a run that has not exited through main.
NoExit == -1

\* A dict is the sequence of its items in insertion order.
dict_has(d, k) == \E i \in DOMAIN d : d[i].key = k

dict_get(d, k) == d[CHOOSE i \in DOMAIN d : d[i].key = k].val

\* d[k] = v : replaces the value of an existing key in place, else appends.
dict_set(d, k, v) ==
    IF dict_has(d, k)
    THEN [i \in DOMAIN d |-> IF d[i].key = k THEN [key |-> k, val |-> v] ELSE d[i]]
    ELSE Append(d, [key |-> k, val |-> v])

dict_keys(d) == [i \in DOMAIN d |-> d[i].key]

\* The module global, as the dict literal of the source writes it.  A candidate
\* "a/b" is the component sequence <<"a", "b">>.
DEFAULT_FILES_literal ==
    << [key |-> "README",             val |-> << <<"README.md">>, <<"readme.md">> >>],
       [key |-> "LICENSE",            val |-> << <<"LICENSE">>, <<"LICENSE.md">> >>],
       [key |-> "CONTRIBUTING",       val |-> << <<"CONTRIBUTING.md">>, <<"CONTRIBUTING">> >>],
       [key |-> "CONTRIBUTORS",       val |-> << <<"CONTRIBUTORS.md">>, <<"CONTRIBUTORS">> >>],
       [key |-> "CODE_OF_CONDUCT",    val |-> << <<"CODE_OF_CONDUCT.md">>, <<"code_of_conduct.md">> >>],
       [key |-> "GITHUB_WORKFLOWS",   val |-> << <<".github", "workflows">> >>],
       [key |-> "PYPROJECT_OR_SETUP", val |-> << <<"pyproject.toml">>, <<"setup.py">>, <<"requirements.txt">> >>],
       [key |-> ".gitignore",         val |-> << <<".gitignore">> >>],
       [key |-> "SCRIPTS_FOLDER",     val |-> << <<"Scripts">>, <<"scripts">> >>] >>

(* ----------------------------- filesystem ----------------------------- *)

\* The directory the tool is pointed at by default.
Top == <<"repo">>

Range(s) == {s[i] : i \in DOMAIN s}

CandidatePaths ==
    {Top \o c : c \in UNION {Range(DEFAULT_FILES_literal[i].val) : i \in DOMAIN DEFAULT_FILES_literal}}

\* Every path of the model: the top directory, the candidates under it, the
\* parent of the one nested candidate, and an entry inside each directory the
\* repository itself has.
Paths ==
    {Top} \cup CandidatePaths
          \cup { Top \o <<".github">>,
                 Top \o <<".github", "workflows", "ci.yml">>,
                 Top \o <<"Scripts", "findleaders.py">>,
                 Top \o <<"Scripts", "README.md">> }

Letter == "a"
Space == " "
Newline == "\n"
BadByte == "0xFF"

Absent == [kind |-> "none", bytes |-> <<>>, perm |-> TRUE]
Dir(perm) == [kind |-> "dir", bytes |-> <<>>, perm |-> perm]
File(bytes, perm) == [kind |-> "file", bytes |-> bytes, perm |-> perm]
Fifo == [kind |-> "fifo", bytes |-> <<>>, perm |-> TRUE]

Parent(p) == SubSeq(p, 1, Len(p) - 1)
Name(p) == p[Len(p)]
IsPrefix(a, b) == Len(a) <= Len(b) /\ SubSeq(b, 1, Len(a)) = a

\* Path.exists(), Path.is_file(), Path.is_dir(): a path outside Paths is absent.
exists(p) == p \in Paths /\ fs[p].kind # "none"
is_file(p) == exists(p) /\ fs[p].kind = "file"
is_dir(p) == exists(p) /\ fs[p].kind = "dir"

Children(p) == {q \in Paths : Len(q) = Len(p) + 1 /\ IsPrefix(p, q) /\ exists(q)}

\* Path.iterdir(): raises on what is not a directory or cannot be listed.
iterdir(p) ==
    IF is_dir(p) /\ fs[p].perm
    THEN [raised |-> FALSE, entries |-> Children(p)]
    ELSE [raised |-> TRUE, entries |-> {}]

\* bytes.decode("utf-8", errors="ignore"): invalid bytes are dropped.
decode_ignore(bytes) == SelectSeq(bytes, LAMBDA b : b # BadByte)

\* Path.read_text(encoding="utf-8", errors="ignore"): raises when the file
\* cannot be opened for reading.
read_text(p) ==
    IF is_file(p) /\ fs[p].perm
    THEN [raised |-> FALSE, text |-> decode_ignore(fs[p].bytes)]
    ELSE [raised |-> TRUE, text |-> <<>>]

\* fnmatch(name, "*.py") on the names of Paths.
matches_py(name) == name \in {"setup.py", "findleaders.py"}

\* Path.rglob("*.py"): every entry below path, file or not, whose name matches,
\* found by walking the directories that can be listed.
rglob_py(path) ==
    {q \in Paths :
        /\ Len(q) > Len(path) /\ IsPrefix(path, q) /\ exists(q)
        /\ matches_py(Name(q))
        /\ \A n \in Len(path)..(Len(q) - 1) :
              is_dir(SubSeq(q, 1, n)) /\ fs[SubSeq(q, 1, n)].perm}

(* ------------------------------- strings ------------------------------ *)

isspace(c) == c \in {Space, Newline}

\* str.strip(): what lies between the first and the last character that is
\* not whitespace.
strip(s) ==
    LET ns == {i \in DOMAIN s : ~isspace(s[i])}
    IN  IF ns = {} THEN <<>>
        ELSE SubSeq(s, CHOOSE i \in ns : \A j \in 1..(i - 1) : isspace(s[j]),
                       CHOOSE i \in ns : \A j \in (i + 1)..Len(s) : isspace(s[j]))

\* str.split(): the maximal runs of non-whitespace characters, in order: the
\* n-th word goes from the n-th place a run starts to the n-th place one stops.
split(s) ==
    LET starts == {i \in DOMAIN s : ~isspace(s[i]) /\ (i = 1 \/ isspace(s[i - 1]))}
        stops == {i \in DOMAIN s : ~isspace(s[i]) /\ (i = Len(s) \/ isspace(s[i + 1]))}
        nth(S, n) == CHOOSE i \in S : Cardinality({j \in S : j < i}) = n - 1
    IN  [n \in 1..Cardinality(starts) |-> SubSeq(s, nth(starts, n), nth(stops, n))]

\* "".join(words)
RECURSIVE join(_)
join(words) == IF words = <<>> THEN <<>> ELSE Head(words) \o join(Tail(words))

(* ------------------------------- objects ------------------------------ *)

EmptyMap == [i \in {} |-> {}]
EmptyHeap == [dicts |-> EmptyMap, lists |-> EmptyMap]

\* The identity of a new object: one no live object has.
new_id(objs) ==
    CHOOSE i \in 0..Cardinality(DOMAIN objs) : i \notin DOMAIN objs

\* Mutant: every notes list is one list shared by all entries and all calls,
\* as a list made once at import time would be.
new_list_shared(h, items) ==
    IF 0 \in DOMAIN h.lists
    THEN [ref |-> 0, heap |-> h]
    ELSE [ref |-> 0, heap |-> [h EXCEPT !.lists = (0 :> items) @@ @]]

\* A list display [x, ...]: a new list object.
new_list(h, items) ==
    LET l == new_id(h.lists)
    IN  [ref |-> l, heap |-> [h EXCEPT !.lists = (l :> items) @@ @]]

\* A dict display {...}: a new dict object.
new_dict(h, d) ==
    LET r == new_id(h.dicts)
    IN  [ref |-> r, heap |-> [h EXCEPT !.dicts = (r :> d) @@ @]]

\* entry[field] = v
setitem(h, e, field, v) == [h EXCEPT !.dicts[e][field] = v]

\* entry["notes"].append(note)
notes_append(h, e, note) ==
    [h EXCEPT !.lists[h.dicts[e].notes] = Append(@, note)]

TooShortNote ==
    [text |-> "File seems too short or empty; consider adding basic content.", args |-> <<>>]
EmptyDirNote == [text |-> "Directory exists but appears empty.", args |-> <<>>]
\* f"Missing - consider adding {', '.join(candidates)}"
MissingNote(candidates) == [text |-> "Missing - consider adding ", args |-> candidates]
NoPyNote ==
    [text |-> "No .py files found - repository might not be Python-based.", args |-> <<>>]

(* ------------------------------ find_any ------------------------------ *)

RECURSIVE find_from(_, _, _)
find_from(path, candidates, i) ==
    IF i > Len(candidates) THEN None
    ELSE IF exists(path \o candidates[i]) THEN path \o candidates[i]
    ELSE find_from(path, candidates, i + 1)

\* Mutant: the first candidate is returned without the test that it exists.
find_any_unchecked(path, candidates) == path \o candidates[1]

\* Mutant: the loop does not stop at the first hit, so the last one wins.
RECURSIVE find_last_from(_, _, _)
find_last_from(path, candidates, i) ==
    IF i < 1 THEN None
    ELSE IF exists(path \o candidates[i]) THEN path \o candidates[i]
    ELSE find_last_from(path, candidates, i - 1)

find_any_last(path, candidates) == find_last_from(path, candidates, Len(candidates))

find_any(path, candidates) == find_from(path, candidates, 1)

(* ------------------------ file_has_min_content ------------------------ *)

\* Mutant: a file that cannot be read passes.
file_has_min_content_unread(p, min_chars) ==
    IF ~is_file(p) THEN FALSE
    ELSE LET r == read_text(p)
         IN  IF r.raised THEN TRUE
             ELSE Len(join(split(strip(r.text)))) >= min_chars

file_has_min_content(p, min_chars) ==
    IF ~is_file(p) THEN FALSE
    ELSE LET r == read_text(p)
         IN  IF r.raised THEN FALSE
             ELSE Len(join(split(strip(r.text)))) >= min_chars

(* ------------------------------ check_repo ---------------------------- *)

\* found.relative_to(path)
relative_to(found, path) == SubSeq(found, Len(path) + 1, Len(found))

\* {"found": False, "path": None, "ok": False, "notes": []}
new_entry(h) ==
    LET l == new_list(h, <<>>)
    IN  new_dict(l.heap, [found |-> FALSE, path |-> None, ok |-> FALSE, notes |-> l.ref])

\* Mutant: min_chars is left at its default of 20.
judge_file_default(found, e, h) ==
    LET ok == file_has_min_content(found, 20)
        h1 == setitem(h, e, "ok", ok)
    IN  IF ~ok THEN notes_append(h1, e, TooShortNote) ELSE h1

\* if found.is_file(): ...
judge_file(found, e, h) ==
    LET ok == file_has_min_content(found, 30)
        h1 == setitem(h, e, "ok", ok)
    IN  IF ~ok THEN notes_append(h1, e, TooShortNote) ELSE h1

\* Mutant: any directory passes, listed or not.
judge_dir_any(found, e, h) ==
    IF is_dir(found)
    THEN setitem(h, e, "ok", TRUE)
    ELSE notes_append(setitem(h, e, "ok", FALSE), e, EmptyDirNote)

\* Mutant: an empty directory is reported without its note.
judge_dir_silent(found, e, h) ==
    LET r == iterdir(found)
        entries == IF r.raised THEN {} ELSE r.entries
    IN  setitem(h, e, "ok", entries # {})

\* else: (directory) ...
judge_dir(found, e, h) ==
    LET r == iterdir(found)
        entries == IF r.raised THEN {} ELSE r.entries
    IN  IF entries # {}
        THEN setitem(h, e, "ok", TRUE)
        ELSE notes_append(setitem(h, e, "ok", FALSE), e, EmptyDirNote)

\* The body of the loop over DEFAULT_FILES.items().
check_entry(path, key, candidates, st) ==
    LET found == find_any(path, candidates)
        a == new_entry(st.heap)
        e == a.ref
        h == IF found # None
             THEN LET h1 == setitem(a.heap, e, "found", TRUE)
                      h2 == setitem(h1, e, "path", relative_to(found, path))
                  IN  IF is_file(found) THEN judge_file(found, e, h2)
                                        ELSE judge_dir(found, e, h2)
             ELSE notes_append(a.heap, e, MissingNote(candidates))
    IN  [findings |-> dict_set(st.findings, key, e), heap |-> h]

\* for key, candidates in DEFAULT_FILES.items(): each pass is finished before
\* the next one starts.
RECURSIVE check_loop(_, _, _, _)
check_loop(path, items, i, st) ==
    IF i > Len(items) THEN st
    ELSE CHOOSE r \in {check_loop(path, items, i + 1, s) :
                          s \in {check_entry(path, items[i].key, items[i].val, st)}} : TRUE

\* Mutant: the synthetic entry is not added.
python_files_skipped(path, st) == st

\* findings["PYTHON_FILES"] = {...}
python_files(path, st) ==
    LET py_files == rglob_py(path)
        l == new_list(st.heap, IF py_files # {} THEN <<>> ELSE <<NoPyNote>>)
        d == new_dict(l.heap, [found |-> py_files # {},
                               count |-> Cardinality(py_files),
                               notes |-> l.ref])
    IN  [findings |-> dict_set(st.findings, "PYTHON_FILES", d.ref), heap |-> d.heap]

\* check_repo(path), run on heap h: the dict returned and the heap it leaves.
check_repo(path, h) ==
    python_files(path, check_loop(path, DEFAULT_FILES, 1, [findings |-> <<>>, heap |-> h]))

(* ----------------------------- pretty_print --------------------------- *)

\* The dict an entry refers to, with its notes list in place of the reference.
deref(h, e) == [h.dicts[e] EXCEPT !.notes = h.lists[h.dicts[e].notes]]

\* json.dumps(findings): the report by value.
json_dumps(d, h) == [i \in DOMAIN d |-> [key |-> d[i].key, val |-> deref(h, d[i].val)]]

\* Mutant: whatever is found is reported OK.
status_of_found(info) == IF info.found THEN "OK" ELSE "MISSING"

status_of(info) ==
    IF info.found /\ info.ok THEN "OK"
    ELSE IF ~info.found THEN "MISSING" ELSE "INCOMPLETE"

\* One pass of the loop over findings.items().
print_entry(key, info, st) ==
    IF key = "PYTHON_FILES"
    THEN [st EXCEPT !.out = @ \o
             << [tag |-> "py", key |-> key, found |-> info.found, count |-> info.count] >>
             \o (IF info.notes # <<>> THEN << [tag |-> "pynote", notes |-> info.notes] >>
                                     ELSE <<>>)]
    ELSE LET status == status_of(info)
             line == [tag |-> "entry", key |-> key, status |-> status, path |-> info.path]
             notes == [i \in DOMAIN info.notes |-> [tag |-> "note", note |-> info.notes[i]]]
         IN  [out |-> st.out \o <<line>> \o notes,
              good |-> IF status = "OK" THEN Append(st.good, key) ELSE st.good,
              warn |-> IF status = "OK" THEN st.warn
                       ELSE Append(st.warn, [key |-> key, status |-> status])]

\* for key, info in findings.items(): each pass is finished before the next
\* one starts.
RECURSIVE print_loop(_, _, _, _)
print_loop(d, h, i, st) ==
    IF i > Len(d) THEN st
    ELSE CHOOSE r \in {print_loop(d, h, i + 1, s) :
                          s \in {print_entry(d[i].key, deref(h, d[i].val), st)}} : TRUE

\* pretty_print(findings, base_path): the lines printed.
pretty_print(d, h, base_path) ==
    LET st == print_loop(d, h, 1,
                         [out |-> << [tag |-> "header", path |-> base_path] >>,
                          good |-> <<>>, warn |-> <<>>])
    IN  st.out
        \o << [tag |-> "summary"],
              [tag |-> "good", n |-> Len(st.good)],
              [tag |-> "warn", n |-> Len(st.warn)] >>
        \o (IF st.warn # <<>>
            THEN << [tag |-> "suggestions"] >>
                 \o [i \in DOMAIN st.warn |->
                        [tag |-> "suggest", key |-> st.warn[i].key, status |-> st.warn[i].status]]
            ELSE <<>>)
        \o << [tag |-> "rule"] >>

(* --------------------------------- main ------------------------------- *)

\* Mutant: a run that finds an unmet requirement exits with 1.
main_strict(path, json, h) ==
    IF ~exists(path)
    THEN [exit |-> 2, out |-> << [tag |-> "error", path |-> path] >>,
          findings |-> <<>>, heap |-> EmptyHeap, checked |-> FALSE]
    ELSE LET r == check_repo(path, h)
             doc == json_dumps(r.findings, r.heap)
             unmet == \E i \in DOMAIN doc :
                         doc[i].key # "PYTHON_FILES" /\ status_of(doc[i].val) # "OK"
         IN  [exit |-> IF unmet THEN 1 ELSE 0,
              out |-> IF json THEN << [tag |-> "json", doc |-> doc] >>
                              ELSE pretty_print(r.findings, r.heap, path),
              findings |-> r.findings, heap |-> r.heap, checked |-> TRUE]

\* main() on the parsed arguments (path, json), run on heap h.
main(path, json, h) ==
    IF ~exists(path)
    THEN [exit |-> 2, out |-> << [tag |-> "error", path |-> path] >>,
          findings |-> <<>>, heap |-> EmptyHeap, checked |-> FALSE]
    ELSE LET r == check_repo(path, h)
         IN  [exit |-> 0,
              out |-> IF json THEN << [tag |-> "json", doc |-> json_dumps(r.findings, r.heap)] >>
                              ELSE pretty_print(r.findings, r.heap, path),
              findings |-> r.findings, heap |-> r.heap, checked |-> TRUE]

(* -------------------------------- actions ----------------------------- *)

Idle == [op |-> "idle", path |-> None, json |-> FALSE]

\* The objects a report reaches: what is left once the caller rebinds its name.
collect(d, h) ==
    LET ds == {d[i].val : i \in DOMAIN d}
        ls == {h.dicts[e].notes : e \in ds}
    IN  [dicts |-> [e \in ds |-> h.dicts[e]], lists |-> [l \in ls |-> h.lists[l]]]

\* The roots the tool is pointed at: the top directory and a path below it
\* that may be a directory, a file, or missing.
Roots == {Top, Top \o <<"Scripts">>}

\* findings = check_repo(path), as the test calls it: in the caller's process,
\* while the caller still holds the report of its previous call.
CheckRepo(path) ==
    /\ call.op \in {"idle", "check_repo"}
    /\ LET r == check_repo(path, heap)
       IN  /\ findings' = r.findings
           /\ heap' = collect(r.findings, r.heap)
    /\ call' = [op |-> "check_repo", path |-> path, json |-> FALSE]
    /\ stdout' = <<>>
    /\ exit_code' = NoExit
    /\ UNCHANGED <<DEFAULT_FILES, fs, edits>>

\* One run of the script: a process of its own.
Main(path, json) ==
    /\ call.op = "idle"
    /\ LET r == main(path, json, EmptyHeap)
       IN  /\ findings' = r.findings
           /\ heap' = collect(r.findings, r.heap)
           /\ stdout' = r.out
           /\ exit_code' = r.exit
           /\ call' = [op |-> IF r.checked THEN "main" ELSE "main_error",
                       path |-> path, json |-> json]
    /\ UNCHANGED <<DEFAULT_FILES, fs, edits>>

\* The caller lets go of the report it holds; the process of a run ends.
Release ==
    /\ call.op # "idle"
    /\ call' = Idle
    /\ findings' = <<>>
    /\ heap' = EmptyHeap
    /\ stdout' = <<>>
    /\ exit_code' = NoExit
    /\ UNCHANGED <<DEFAULT_FILES, fs, edits>>

\* The environment: the repository changes between runs, while no report is
\* held, at most MaxEdits times.
CanEdit == call.op = "idle" /\ edits < MaxEdits

Edited == UNCHANGED <<DEFAULT_FILES, heap, findings, stdout, exit_code, call>>

Letters(n) == [i \in 1..n |-> Letter]

\* A text of n letters with whitespace before, inside and after them.
Doc(n) ==
    <<Space>> \o Letters(n \div 2) \o <<Newline>> \o Letters(n - (n \div 2)) \o <<Newline>>

\* Doc(n) with a byte inside that is not valid UTF-8.
BadDoc(n) == Letters(n \div 2) \o <<BadByte>> \o Letters(n - (n \div 2))

SampleTexts == {Doc(29), Doc(30)}

WriteFile(p, bytes) ==
    /\ CanEdit
    /\ p # Top /\ is_dir(Parent(p))
    /\ fs[p].kind \in {"none", "file"}
    /\ fs' = [fs EXCEPT ![p] = File(bytes, fs[p].perm)]
    /\ fs' # fs
    /\ edits' = edits + 1
    /\ Edited

\* os.makedirs(p)
MakeDirs(p) ==
    /\ CanEdit
    /\ ~exists(p)
    /\ \A n \in 1..(Len(p) - 1) : fs[SubSeq(p, 1, n)].kind \in {"none", "dir"}
    /\ fs' = [q \in Paths |-> IF IsPrefix(q, p) /\ ~exists(q) THEN Dir(TRUE) ELSE fs[q]]
    /\ edits' = edits + 1
    /\ Edited

\* os.remove(p) or os.rmdir(p)
Remove(p) ==
    /\ CanEdit
    /\ p # Top /\ exists(p) /\ Children(p) = {}
    /\ fs' = [fs EXCEPT ![p] = Absent]
    /\ edits' = edits + 1
    /\ Edited

\* os.chmod(p, ...): read permission taken away or given back.
Chmod(p) ==
    /\ CanEdit
    /\ exists(p) /\ fs[p].kind # "fifo"
    /\ fs' = [fs EXCEPT ![p].perm = ~@]
    /\ edits' = edits + 1
    /\ Edited

\* A tree: the nodes given, every other path absent.
Tree(nodes) == [p \in Paths |-> IF p \in DOMAIN nodes THEN nodes[p] ELSE Absent]

\* tempfile.mkdtemp(): the empty directory of the test.
EmptyRepo == Tree(Top :> Dir(TRUE))

\* A repository with requirements met, met poorly, and unmet.
SampleRepo ==
    Tree((Top :> Dir(TRUE))
         @@ (Top \o <<"README.md">> :> File(Doc(30), TRUE))
         @@ (Top \o <<"readme.md">> :> File(Doc(29), TRUE))
         @@ (Top \o <<"LICENSE">> :> File(Doc(29), TRUE))
         @@ (Top \o <<"CONTRIBUTORS">> :> File(BadDoc(30), TRUE))
         @@ (Top \o <<".github">> :> Dir(TRUE))
         @@ (Top \o <<".github", "workflows">> :> Dir(TRUE))
         @@ (Top \o <<".github", "workflows", "ci.yml">> :> File(Doc(30), TRUE))
         @@ (Top \o <<"setup.py">> :> File(Doc(30), TRUE))
         @@ (Top \o <<"Scripts">> :> Dir(TRUE)))

Seeds == {EmptyRepo, SampleRepo}

InitRest ==
    /\ DEFAULT_FILES = DEFAULT_FILES_literal
    /\ heap = EmptyHeap
    /\ findings = <<>>
    /\ stdout = <<>>
    /\ exit_code = NoExit
    /\ call = Idle

Init ==
    /\ fs \in Seeds
    /\ edits = 0
    /\ InitRest

Calls ==
    \/ \E path \in Roots : CheckRepo(path)
    \/ \E path \in Roots, json \in BOOLEAN : Main(path, json)
    \/ Release

Next ==
    \/ Calls
    \/ \E p \in Paths, bytes \in SampleTexts : WriteFile(p, bytes)
    \/ \E p \in Paths : MakeDirs(p)
    \/ \E p \in Paths : Remove(p)
    \/ \E p \in Paths : Chmod(p)

\* Runs and calls interleaved with changes of the repository.
Spec == Init /\ [][Next]_vars

(* ----------------- one requirement, every kind of entry --------------- *)

\* SpecReq starts from every repository in which the candidates of one
\* requirement hold any mix of entries, and only inspects it.

\* What a candidate path may hold.
NodeKinds ==
    { Absent, File(Doc(29), TRUE), File(Doc(30), TRUE), File(BadDoc(30), TRUE),
      File(Doc(30), FALSE), Dir(TRUE), Dir(FALSE), Fifo }

\* The tree in which the paths of `given` hold the nodes given them, their
\* ancestors are directories, and, with `kids`, each directory given has the
\* entries Paths knows inside it.
Populate(given, kids) ==
    LET present == {p \in DOMAIN given : given[p].kind # "none"}
        above == {q \in Paths : \E p \in present : IsPrefix(q, p) /\ q # p}
        below == {q \in Paths : /\ kids
                                /\ \E p \in present : /\ given[p].kind = "dir"
                                                      /\ Len(q) = Len(p) + 1
                                                      /\ IsPrefix(p, q)}
    IN  [p \in Paths |->
            IF p \in present THEN given[p]
            ELSE IF p = Top \/ p \in above THEN Dir(TRUE)
            ELSE IF p \in below THEN File(Doc(30), TRUE)
            ELSE Absent]

\* The candidates of one requirement under one root, as far as Paths has them.
Slots(root, item) == {root \o c : c \in Range(item.val)} \cap Paths

InitReq ==
    /\ \E root \in Roots, i \in DOMAIN DEFAULT_FILES_literal, kids \in BOOLEAN :
          \E given \in [Slots(root, DEFAULT_FILES_literal[i]) -> NodeKinds] :
              fs = Populate(given, kids)
    /\ edits = 0
    /\ InitRest

NextReq == Calls

SpecReq == InitReq /\ [][NextReq]_vars

(* ------------------- one file, every shape of text -------------------- *)

\* SpecText starts from every repository with one candidate file, of any of
\* the texts below, and only inspects it.

Gaps == {<<>>, <<Space>>, <<Newline>>, <<Space, Newline>>, <<BadByte>>}

\* Texts of n letters with a gap before, inside and after them.
Texts ==
    {lead \o Letters(n \div 2) \o mid \o Letters(n - (n \div 2)) \o trail :
        n \in 0..MaxChars, lead \in {<<>>, <<Newline>>}, mid \in Gaps, trail \in {<<>>, <<Space>>}}

InitText ==
    /\ \E p \in CandidatePaths, bytes \in Texts, perm \in BOOLEAN :
          fs = Populate(p :> File(bytes, perm), FALSE)
    /\ edits = 0
    /\ InitRest

NextText ==
    \/ CheckRepo(Top)
    \/ Release

SpecText == InitText /\ [][NextText]_vars

(* ------------------------------ properties ---------------------------- *)

\* A report is held: check_repo has returned and the repository is as it was
\* when it ran (a change of the repository needs the report released).
Held == call.op \in {"check_repo", "main"}

\* The report by value.
Report == json_dumps(findings, heap)

Entry(k) == dict_get(Report, k)

CatalogKeys == [i \in DOMAIN DEFAULT_FILES |-> DEFAULT_FILES[i].key]

\* The path the entry of key k names, under the root inspected.
Matched(k) == call.path \o Entry(k).path

\* The first candidate, in listed order, that exists under the root inspected.
Earliest(c) ==
    LET J == {j \in DOMAIN c : exists(call.path \o c[j])}
    IN  IF J = {} THEN None
        ELSE call.path \o c[CHOOSE j \in J : \A k \in J : j <= k]

\* The characters of a text that are not whitespace, wherever they are.
NonSpace(text) == Cardinality({i \in DOMAIN text : ~isspace(text[i])})

HasNote(e, note) == \E i \in DOMAIN e.notes : e.notes[i].text = note.text

\* The report has an entry for every requirement, in order, then PYTHON_FILES.
Complete == dict_keys(findings) = Append(CatalogKeys, "PYTHON_FILES")

\* C1: on a root directory with no entries at all, every requirement's entry
\* has found = false, ok = false and no path, and the PYTHON_FILES entry has
\* found = false and count = 0.
C1_EmptyRoot ==
    (Held /\ is_dir(call.path) /\ Children(call.path) = {}) =>
        /\ \A i \in DOMAIN DEFAULT_FILES :
              /\ dict_has(Report, DEFAULT_FILES[i].key)
              /\ LET e == Entry(DEFAULT_FILES[i].key)
                 IN  ~e.found /\ ~e.ok /\ e.path = None
        /\ dict_has(Report, "PYTHON_FILES")
        /\ ~Entry("PYTHON_FILES").found
        /\ Entry("PYTHON_FILES").count = 0

C1_Witness ==
    /\ call.op = "check_repo" /\ call.path = Top
    /\ Children(Top) = {}
    /\ Len(findings) = Len(DEFAULT_FILES) + 1

\* C2: the path an entry records is the earliest candidate, in listed order,
\* that exists under the root: a candidate is recorded exactly when it exists
\* and none listed before it does, and found = false exactly when none exists.
C2_EarliestCandidate ==
    Held =>
        \A i \in DOMAIN DEFAULT_FILES :
            LET c == DEFAULT_FILES[i].val
                e == Entry(DEFAULT_FILES[i].key)
                there(j) == exists(call.path \o c[j])
            IN  /\ e.found <=> \E j \in DOMAIN c : there(j)
                /\ \A j \in DOMAIN c :
                      (e.path = c[j]) <=> (there(j) /\ \A k \in 1..(j - 1) : ~there(k))

\* The second of three candidates is recorded: the first is missing and the
\* third is there too.
C2_Witness ==
    /\ Held
    /\ \E i \in DOMAIN DEFAULT_FILES :
          LET c == DEFAULT_FILES[i].val
          IN  /\ Len(c) = 3
              /\ ~exists(call.path \o c[1])
              /\ exists(call.path \o c[2])
              /\ exists(call.path \o c[3])
              /\ Entry(DEFAULT_FILES[i].key).path = c[2]

\* C3: when the matched candidate is a regular file that can be read, ok is
\* true exactly when its text has at least 30 characters that are not
\* whitespace, and ok = false carries the too-short note.
C3_MinContent ==
    Held =>
        \A i \in DOMAIN DEFAULT_FILES :
            LET e == Entry(DEFAULT_FILES[i].key)
                m == Matched(DEFAULT_FILES[i].key)
            IN  (e.found /\ is_file(m) /\ fs[m].perm) =>
                    /\ e.ok <=> NonSpace(decode_ignore(fs[m].bytes)) >= 30
                    /\ ~e.ok => e.notes = <<TooShortNote>>

\* A file of exactly 30 letters, with whitespace among them, is ok.
C3_Witness ==
    /\ Held
    /\ \E i \in DOMAIN DEFAULT_FILES :
          LET e == Entry(DEFAULT_FILES[i].key)
              m == Matched(DEFAULT_FILES[i].key)
          IN  /\ e.found /\ is_file(m) /\ fs[m].perm
              /\ NonSpace(fs[m].bytes) = 30
              /\ \E n \in 2..(Len(fs[m].bytes) - 1) : isspace(fs[m].bytes[n])
              /\ e.ok

\* The judgement of a directory that check_repo reports as empty.
ReportedEmpty(e) == e.found /\ ~e.ok /\ e.notes = <<EmptyDirNote>>

\* C4, as claimed: when the matched candidate is a directory, ok is true
\* exactly when the directory has a direct entry, and a directory with none
\* is reported found, not ok, with the empty-directory note.
C4_AsClaimed ==
    Held =>
        \A i \in DOMAIN DEFAULT_FILES :
            LET e == Entry(DEFAULT_FILES[i].key)
                m == Matched(DEFAULT_FILES[i].key)
            IN  (e.found /\ is_dir(m)) =>
                    /\ e.ok <=> Children(m) # {}
                    /\ Children(m) = {} => ReportedEmpty(e)

\* C4, amended: the same of a directory that can be listed; a directory that
\* cannot be listed is reported as an empty one, whatever it holds.
C4_ListableDirectory ==
    Held =>
        \A i \in DOMAIN DEFAULT_FILES :
            LET e == Entry(DEFAULT_FILES[i].key)
                m == Matched(DEFAULT_FILES[i].key)
            IN  (e.found /\ is_dir(m)) =>
                    /\ fs[m].perm => (e.ok <=> Children(m) # {})
                    /\ (fs[m].perm /\ Children(m) = {}) => ReportedEmpty(e)
                    /\ ~fs[m].perm => ReportedEmpty(e)

\* A directory with an entry is ok.
C4_Witness ==
    /\ Held
    /\ \E i \in DOMAIN DEFAULT_FILES :
          LET e == Entry(DEFAULT_FILES[i].key)
              m == Matched(DEFAULT_FILES[i].key)
          IN  e.found /\ is_dir(m) /\ fs[m].perm /\ Children(m) # {} /\ e.ok

\* C5, as claimed: the keys of a report are the nine requirement identifiers,
\* GITIGNORE among them, and PYTHON_FILES, each once.
C5_AsClaimed ==
    Held =>
        /\ Range(dict_keys(findings)) =
              { "README", "LICENSE", "CONTRIBUTING", "CONTRIBUTORS", "CODE_OF_CONDUCT",
                "GITHUB_WORKFLOWS", "PYPROJECT_OR_SETUP", "GITIGNORE", "SCRIPTS_FOLDER",
                "PYTHON_FILES" }
        /\ Len(findings) = 10

\* C5, amended: the same with the key .gitignore in place of GITIGNORE.
C5_KeySet ==
    Held =>
        /\ Range(dict_keys(findings)) =
              { "README", "LICENSE", "CONTRIBUTING", "CONTRIBUTORS", "CODE_OF_CONDUCT",
                "GITHUB_WORKFLOWS", "PYPROJECT_OR_SETUP", ".gitignore", "SCRIPTS_FOLDER",
                "PYTHON_FILES" }
        /\ Len(findings) = 10

\* A report on a root in which a requirement is found.
C5_Witness ==
    /\ Held
    /\ \E i \in DOMAIN DEFAULT_FILES : Entry(DEFAULT_FILES[i].key).found
    /\ dict_has(Report, ".gitignore")

\* C6: in every entry of a requirement, ok implies found; the path is there
\* exactly when found, and is then a candidate of the requirement that exists
\* under the root; the Missing note is there exactly when not found, a
\* too-short or empty-directory note exactly when found and not ok, and no
\* note at all when ok.
C6_EntryConsistent ==
    Held =>
        \A i \in DOMAIN DEFAULT_FILES :
            LET c == DEFAULT_FILES[i].val
                e == Entry(DEFAULT_FILES[i].key)
            IN  /\ e.ok => e.found
                /\ e.path # None <=> e.found
                /\ e.found => e.path \in Range(c) /\ exists(call.path \o e.path)
                /\ HasNote(e, MissingNote(c)) <=> ~e.found
                /\ ~e.found => e.notes = <<MissingNote(c)>>
                /\ (HasNote(e, TooShortNote) \/ HasNote(e, EmptyDirNote)) <=> (e.found /\ ~e.ok)
                /\ e.ok => e.notes = <<>>

\* An entry found and not ok, with its note.
C6_Witness ==
    /\ Held
    /\ \E i \in DOMAIN DEFAULT_FILES :
          LET e == Entry(DEFAULT_FILES[i].key)
          IN  e.found /\ ~e.ok /\ is_dir(Matched(DEFAULT_FILES[i].key))
              /\ e.notes = <<EmptyDirNote>>

Undecodable(bytes) == \E n \in DOMAIN bytes : bytes[n] = BadByte

Structured == main(call.path, TRUE, EmptyHeap).out[1].doc

Lines(tag) == SelectSeq(stdout, LAMBDA l : l.tag = tag)

Tag(found, ok) ==
    CASE ~found -> "MISSING"
      [] found /\ ~ok -> "INCOMPLETE"
      [] found /\ ok -> "OK"

\* C9: a run in human mode prints, for every requirement, one line whose tag
\* is decided by the found and ok that the structured mode prints for the same
\* root (OK, MISSING or INCOMPLETE); Good plus Issues/Missing is the number of
\* requirements; the suggestions are the entries whose tag is not OK.
C9_HumanMatchesStructured ==
    (call.op = "main" /\ ~call.json) =>
        LET doc == SelectSeq(Structured, LAMBDA it : it.key # "PYTHON_FILES")
            entries == Lines("entry")
            notOK == SelectSeq(entries, LAMBDA l : l.status # "OK")
            suggested == Lines("suggest")
            good == Lines("good")[1].n
            warn == Lines("warn")[1].n
        IN  /\ Len(entries) = Len(doc)
            /\ \A i \in DOMAIN doc :
                  /\ entries[i].key = doc[i].key
                  /\ entries[i].status = Tag(doc[i].val.found, doc[i].val.ok)
            /\ good + warn = Len(DEFAULT_FILES)
            /\ good = Len(entries) - Len(notOK)
            /\ Len(suggested) = Len(notOK)
            /\ \A i \in DOMAIN notOK :
                  suggested[i].key = notOK[i].key /\ suggested[i].status = notOK[i].status

\* A human run that prints each of the three tags.
C9_Witness ==
    /\ call.op = "main" /\ ~call.json
    /\ \A t \in {"OK", "MISSING", "INCOMPLETE"} :
          \E i \in DOMAIN stdout : stdout[i].tag = "entry" /\ stdout[i].status = t

\* C10: a call of check_repo, or a run, leaves DEFAULT_FILES and the
\* filesystem as they were, makes its report of objects no report still held
\* is made of, returns what a call in a fresh process returns, and, on the
\* root of the report still held, returns a report equal to it.
C10_Step ==
    call'.op \in {"check_repo", "main"} =>
        /\ DEFAULT_FILES' = DEFAULT_FILES
        /\ fs' = fs
        /\ DOMAIN heap'.dicts \cap DOMAIN heap.dicts = {}
        /\ DOMAIN heap'.lists \cap DOMAIN heap.lists = {}
        /\ \A r \in {check_repo(call'.path, EmptyHeap)} :
              json_dumps(findings', heap') = json_dumps(r.findings, r.heap)
        /\ (call.op = "check_repo" /\ call.path = call'.path) =>
              json_dumps(findings', heap') = Report

C10_NoInterference == [][C10_Step]_vars

\* A second call in a row, after the repository was changed.
C10_Witness ==
    /\ call.op = "check_repo"
    /\ edits > 0
    /\ 0 \notin DOMAIN heap.lists

====
